---- MODULE Spec2Model ----
(***************************************************************************)
(* secretshare: Shamir's secret sharing over GF(2^8), byte-wise.           *)
(* A model of src/main.rs: the encode flow (secret_share, encode, the      *)
(* share-line emitter), the decode flow (read_shares, lagrange_interpolate)*)
(* and main's dispatch and error reporting.                                *)
(***************************************************************************)
EXTENDS Integers, Sequences, FiniteSets, TLC

\* ------------------------------------------------------------------ bounds

\* Longest stdin (in lines) handed to a decode run.
MaxLines == 3
\* Longest secret (in bytes) handed to an encode run.
MaxLen == 1
\* Most lines left unread on the stream when read_shares returns.
MaxUnread == 1

\* ------------------------------------------------------------ integer helpers

Byte == 0 .. 255

RECURSIVE Xor(_, _)
\* bitwise exclusive or of two naturals
Xor(a, b) ==
    IF a = 0 THEN b
    ELSE IF b = 0 THEN a
    ELSE (((a % 2) + (b % 2)) % 2) + 2 * Xor(a \div 2, b \div 2)

XorTable == [a \in Byte |-> [b \in Byte |-> Xor(a, b)]]

Min(a, b) == IF a < b THEN a ELSE b

\* ---------------------------------------------------------------- GF(2^8)
\* mod gf256 (not among the sources): the field of the specification,
\* bytes as polynomials over GF(2) modulo x^8 + x^4 + x^3 + x + 1.

ReductionPoly == 283

\* multiplication by the polynomial x, reduced
XTime(a) == IF 2 * a >= 256 THEN Xor(2 * a, ReductionPoly) ELSE 2 * a

RECURSIVE GfMulShift(_, _)
\* the field product by shift and add (polynomial product, reduced)
GfMulShift(a, b) ==
    IF b = 0 THEN 0
    ELSE Xor(IF b % 2 = 1 THEN a ELSE 0, GfMulShift(XTime(a), b \div 2))

RECURSIVE GfPow(_, _)
GfPow(a, n) ==
    IF n = 0 THEN 1
    ELSE LET h == GfPow(a, n \div 2)
             sq == GfMulShift(h, h)
         IN  IF n % 2 = 1 THEN GfMulShift(sq, a) ELSE sq

\* EXP[i] = g^i for the generator g = 3 (index i + 1 of the sequence)
GfExp == [i \in 1 .. 255 |-> GfPow(3, i - 1)]

GfLog == [a \in 1 .. 255 |-> CHOOSE i \in 0 .. 254 : GfExp[i + 1] = a]

GfAdd(a, b) == XorTable[a][b]
GfSub(a, b) == XorTable[a][b]
\* the product by the tables: EXP[LOG[a] + LOG[b]], zero when either is zero
GfMulLog(a, b) ==
    IF a = 0 \/ b = 0 THEN 0 ELSE GfExp[((GfLog[a] + GfLog[b]) % 255) + 1]
MulTable == [a \in Byte |-> [b \in Byte |-> GfMulLog(a, b)]]
GfMul(a, b) == MulTable[a][b]
GfInverse(a) == GfExp[((255 - GfLog[a]) % 255) + 1]
\* b # 0 is the caller's obligation (division by zero aborts the process)
GfDiv(a, b) == GfMul(a, GfInverse(b))

\* ---------------------------------------------------------------- CRC-24
\* extern crate crc24: the OpenPGP CRC-24 (RFC 4880, 6.1).

Crc24Init == 11994318
Crc24Poly == 25578747
Pow24 == 16777216

RECURSIVE Crc24Shift(_, _)
\* `n` times: shift left by one bit, reduce when bit 24 is set
Crc24Shift(crc, n) ==
    IF n = 0 THEN crc
    ELSE LET s == 2 * crc
         IN  Crc24Shift(IF s >= Pow24 THEN Xor(s, Crc24Poly) ELSE s, n - 1)

\* the table of the hasher: the state a byte in the top position shifts into
Crc24Table == [b \in Byte |-> Crc24Shift(b * 65536, 8) % Pow24]

\* exclusive or of two 24-bit values, byte by byte
Xor24(a, b) ==
    XorTable[a \div 65536][b \div 65536] * 65536
        + XorTable[(a \div 256) % 256][(b \div 256) % 256] * 256
        + XorTable[a % 256][b % 256]

RECURSIVE Crc24Write(_, _, _)
\* Hasher::write: feeds octets[i..] into the running state
Crc24Write(crc, octets, i) ==
    IF i > Len(octets) THEN crc
    ELSE Crc24Write(Xor24((crc % 65536) * 256,
                          Crc24Table[XorTable[crc \div 65536][octets[i]]]),
                    octets, i + 1)

crc24_as_bytes(k, n, octets) ==
    LET h == Crc24Write(Crc24Write(Crc24Init, <<k, n>>, 1), octets, 1)
        v == h % Pow24
    IN  <<(v \div 65536) % 256, (v \div 256) % 256, v % 256>>

\* ------------------------------------------------------------------- text
\* A string is a sequence of one-character strings.

Digits == <<"0", "1", "2", "3", "4", "5", "6", "7", "8", "9">>

IsDigit(ch) == \E i \in 1 .. 10 : Digits[i] = ch
DigitVal(ch) == (CHOOSE i \in 1 .. 10 : Digits[i] = ch) - 1

RECURSIVE ToDecimal(_)
\* Display of an unsigned integer ("{}")
ToDecimal(v) ==
    IF v < 10 THEN <<Digits[v + 1]>>
    ELSE Append(ToDecimal(v \div 10), Digits[(v % 10) + 1])

U8Max == 255

RECURSIVE ParseDigits(_, _, _)
\* accumulates decimal digits with the overflow check of u8
ParseDigits(s, i, acc) ==
    IF i > Len(s) THEN [ok |-> TRUE, val |-> acc]
    ELSE IF ~IsDigit(s[i]) THEN [ok |-> FALSE, val |-> 0]
    ELSE LET v == acc * 10 + DigitVal(s[i])
         IN  IF v > U8Max THEN [ok |-> FALSE, val |-> 0]
             ELSE ParseDigits(s, i + 1, v)

\* str::parse::<u8>: an optional '+', then at least one digit, value <= 255
ParseU8(s) ==
    LET body == IF Len(s) > 0 /\ s[1] = "+" THEN Tail(s) ELSE s
    IN  IF Len(body) = 0 THEN [ok |-> FALSE, val |-> 0]
        ELSE ParseDigits(body, 1, 0)

IsWhitespace(ch) == ch \in {" ", "\t", "\r"}

RECURSIVE TrimLeft(_)
TrimLeft(s) ==
    IF Len(s) > 0 /\ IsWhitespace(s[1]) THEN TrimLeft(Tail(s)) ELSE s

RECURSIVE TrimRight(_)
TrimRight(s) ==
    IF Len(s) > 0 /\ IsWhitespace(s[Len(s)])
    THEN TrimRight(SubSeq(s, 1, Len(s) - 1)) ELSE s

\* str::trim
Trim(s) == TrimRight(TrimLeft(s))

RECURSIVE SplitFrom(_, _, _, _)
SplitFrom(s, sep, i, cur) ==
    IF i > Len(s) THEN <<cur>>
    ELSE IF s[i] = sep THEN <<cur>> \o SplitFrom(s, sep, i + 1, <<>>)
    ELSE SplitFrom(s, sep, i + 1, Append(cur, s[i]))

\* str::split(sep).collect(): always at least one part
Split(s, sep) == SplitFrom(s, sep, 1, <<>>)

\* ----------------------------------------------------------------- base64
\* extern crate rustc_serialize, base64::STANDARD with pad: false.

B64Chars ==
    <<"A", "B", "C", "D", "E", "F", "G", "H", "I", "J", "K", "L", "M",
      "N", "O", "P", "Q", "R", "S", "T", "U", "V", "W", "X", "Y", "Z",
      "a", "b", "c", "d", "e", "f", "g", "h", "i", "j", "k", "l", "m",
      "n", "o", "p", "q", "r", "s", "t", "u", "v", "w", "x", "y", "z",
      "0", "1", "2", "3", "4", "5", "6", "7", "8", "9", "+", "/">>

RECURSIVE ToBase64From(_, _)
ToBase64From(b, i) ==
    LET left == Len(b) - i + 1
    IN  IF left <= 0 THEN <<>>
        ELSE IF left = 1 THEN
            <<B64Chars[(b[i] \div 4) + 1], B64Chars[((b[i] % 4) * 16) + 1]>>
        ELSE IF left = 2 THEN
            <<B64Chars[(b[i] \div 4) + 1],
              B64Chars[((b[i] % 4) * 16 + (b[i + 1] \div 16)) + 1],
              B64Chars[((b[i + 1] % 16) * 4) + 1]>>
        ELSE
            <<B64Chars[(b[i] \div 4) + 1],
              B64Chars[((b[i] % 4) * 16 + (b[i + 1] \div 16)) + 1],
              B64Chars[((b[i + 1] % 16) * 4 + (b[i + 2] \div 64)) + 1],
              B64Chars[(b[i + 2] % 64) + 1]>> \o ToBase64From(b, i + 3)

\* ToBase64::to_base64, unpadded
ToBase64(b) == ToBase64From(b, 1)

\* the decode table: both the standard and the URL-safe alphabet decode
B64Table ==
    [ch \in {B64Chars[i] : i \in 1 .. 64} \cup {"-", "_"} |->
        IF ch = "-" THEN 62
        ELSE IF ch = "_" THEN 63
        ELSE (CHOOSE i \in 1 .. 64 : B64Chars[i] = ch) - 1]

\* the 6-bit code of a character, 64 for a character outside the table
B64Code(ch) == IF ch \in DOMAIN B64Table THEN B64Table[ch] ELSE 64

B64Fail == [ok |-> FALSE, bytes |-> <<>>]

\* the bytes of the 6-bit codes left over at the end of the input
B64Finish(out, pend) ==
    IF Len(pend) = 0 THEN [ok |-> TRUE, bytes |-> out]
    ELSE IF Len(pend) = 2 THEN
        [ok |-> TRUE, bytes |-> Append(out, pend[1] * 4 + (pend[2] \div 16))]
    ELSE IF Len(pend) = 3 THEN
        [ok |-> TRUE,
         bytes |-> out \o <<pend[1] * 4 + (pend[2] \div 16),
                            (pend[2] % 16) * 16 + (pend[3] \div 4)>>]
    ELSE B64Fail

RECURSIVE FromBase64From(_, _, _, _)
FromBase64From(s, i, out, pend) ==
    IF i > Len(s) THEN B64Finish(out, pend)
    ELSE IF s[i] \in {"\r", "\n"} THEN FromBase64From(s, i + 1, out, pend)
    ELSE IF s[i] = "=" THEN
        IF \A j \in i + 1 .. Len(s) : s[j] \in {"=", "\r", "\n"}
        THEN B64Finish(out, pend) ELSE B64Fail
    ELSE IF B64Code(s[i]) = 64 THEN B64Fail
    ELSE LET p == Append(pend, B64Code(s[i]))
         IN  IF Len(p) = 4
             THEN FromBase64From(s, i + 1,
                      out \o <<p[1] * 4 + (p[2] \div 16),
                               (p[2] % 16) * 16 + (p[3] \div 4),
                               (p[3] % 4) * 64 + p[4]>>, <<>>)
             ELSE FromBase64From(s, i + 1, out, p)

\* FromBase64::from_base64
FromBase64(s) == FromBase64From(s, 1, <<>>, <<>>)

\* ---------------------------------------------------------------- errors

None == <<>>
Some(v) == <<v>>

ErrParts == "Share parse error: Expected 3 or 4 parts searated by a minus sign"
ErrInt == "Integer parsing error"
ErrIllegalKN == "Share parse error: Illegal K,N parameters"
ErrDataB64 == "Share parse error: Base64 decoding of data block failed"
ErrCheckLen == "Share parse error: Checksum part is expected to be four characters"
ErrCheckB64 == "Share parse error: Base64 decoding of checksum failed"
ErrChecksum == "Share parse error: Checksum mismatch"
ErrIncompatible == "Incompatible shares"
ErrNotEnough == "Not enough shares provided!"
ErrTooLarge == "Secret too large"
ErrRng == "OsRng: could not open the system random source"
ErrComma == "K and N have to be separated with a comma"
ErrNothing == "Nothing to do! Use -e or -d"
ErrBoth == "Use either -e or -d and not both"
ErrInvalidKN == "Invalid encoding parameters K,N"
ErrParseKN == "Could not parse K,N parameters"
ErrNoParam == "No parameter for -e or -d provided"
PanicDuplicate == "Duplicate shares"
PanicEmpty == "assertion failed: !shares.is_empty()"
PanicIndex == "index out of bounds"

Running == [tag |-> "running", descr |-> ""]
Ok == [tag |-> "ok", descr |-> ""]
Err(descr) == [tag |-> "err", descr |-> descr]
Panic(descr) == [tag |-> "panic", descr |-> descr]

\* ---------------------------------------------------------------- encoder

new_vec(n, x) == [i \in 1 .. n |-> x]

RECURSIVE PolyEval(_, _, _, _, _)
\* the inner loop of encode over src[i..], carrying fac and acc
PolyEval(src, x, i, fac, acc) ==
    IF i > Len(src) THEN acc
    ELSE PolyEval(src, x, i + 1, GfMul(fac, x), GfAdd(acc, GfMul(fac, src[i])))

\* ShareAt with the evaluation points counted from 0: x = 0, 1, ..., n - 1
ShareAtFromZero(src, raw_x) == PolyEval(src, (raw_x - 1) % 256, 1, 1, 0)

\* the body of the outer loop of encode: the byte written for raw_x
ShareAt(src, raw_x) == PolyEval(src, raw_x % 256, 1, 1, 0)

\* encode: the polynomial with coefficients src at x = 1, 2, ..., n
encode(src, n) == [raw_x \in 1 .. n |-> ShareAt(src, raw_x)]

\* ---------------------------------------------------------------- decoder

\* the assertion of lagrange_interpolate fails: two points share an x
DuplicateShares(src) ==
    \E i, j \in 1 .. Len(src) : i # j /\ GfSub(src[i][1], src[j][1]) = 0

RECURSIVE LagrangeBasisOwnNode(_, _, _, _, _)
\* LagrangeBasis with the numerator taken at the node itself: x - xi
LagrangeBasisOwnNode(src, x, i, j, lix) ==
    IF j > Len(src) THEN lix
    ELSE IF i = j THEN LagrangeBasisOwnNode(src, x, i, j + 1, lix)
    ELSE LET delta == GfSub(src[i][1], src[j][1])
         IN  LagrangeBasisOwnNode(src, x, i, j + 1,
                                  GfDiv(GfMul(lix, GfSub(x, src[i][1])), delta))

RECURSIVE LagrangeBasis(_, _, _, _, _)
\* the inner loop of lagrange_interpolate over j, carrying lix
LagrangeBasis(src, x, i, j, lix) ==
    IF j > Len(src) THEN lix
    ELSE IF i = j THEN LagrangeBasis(src, x, i, j + 1, lix)
    ELSE LET delta == GfSub(src[i][1], src[j][1])
         IN  LagrangeBasis(src, x, i, j + 1,
                           GfDiv(GfMul(lix, GfSub(x, src[j][1])), delta))

RECURSIVE LagrangeSum(_, _, _, _)
LagrangeSum(src, x, i, sum) ==
    IF i > Len(src) THEN sum
    ELSE LagrangeSum(src, x, i + 1,
                     GfAdd(sum, GfMul(LagrangeBasis(src, x, i, 1, 1), src[i][2])))

\* lagrange_interpolate, for src without duplicate x
lagrange_interpolate(src, raw_x) == LagrangeSum(src, raw_x, 1, 0)

\* ------------------------------------------------------------ share lines

Join3(a, b, c) == a \o <<"-">> \o b \o <<"-">> \o c

\* EmitLine with the checksum taken over the 0-based index
EmitLineIndexCrc(k, index, share, with_checksums) ==
    LET salad == ToBase64(share)
        base == Join3(ToDecimal(k), ToDecimal(index + 1), salad)
    IN  IF with_checksums
        THEN base \o <<"-">>
                  \o ToBase64(crc24_as_bytes(k, index % 256, share))
        ELSE base

\* the line perform_encode prints for share number index (0-based)
EmitLine(k, index, share, with_checksums) ==
    LET salad == ToBase64(share)
        base == Join3(ToDecimal(k), ToDecimal(index + 1), salad)
    IN  IF with_checksums
        THEN base \o <<"-">>
                  \o ToBase64(crc24_as_bytes(k, (index + 1) % 256, share))
        ELSE base

\* the locals of read_shares before the first line
ReadInit == [opt_k_l |-> None, counter |-> 0, shares |-> <<>>,
             k |-> 0, ret |-> "continue"]

Return(st, ret) == [st EXCEPT !.ret = ret]

\* Accumulate without the early return: reading goes on to the end of input
AccumulateNoReturn(st, k, n, data) ==
    IF st.opt_k_l # None
       /\ (st.opt_k_l[1][1] # k \/ st.opt_k_l[1][2] # Len(data))
    THEN Return(st, ErrIncompatible)
    ELSE LET st1 == IF st.opt_k_l = None
                    THEN [st EXCEPT !.opt_k_l = Some(<<k, Len(data)>>)]
                    ELSE st
         IN  IF \A i \in 1 .. Len(st1.shares) : st1.shares[i][1] # n
             THEN [st1 EXCEPT !.shares = Append(@, <<n, data>>),
                              !.counter = (@ + 1) % 256]
             ELSE st1

\* Accumulate where a duplicate x replaces the stored share (last wins)
AccumulateLastWins(st, k, n, data) ==
    IF st.opt_k_l # None
       /\ (st.opt_k_l[1][1] # k \/ st.opt_k_l[1][2] # Len(data))
    THEN Return(st, ErrIncompatible)
    ELSE LET st1 == IF st.opt_k_l = None
                    THEN [st EXCEPT !.opt_k_l = Some(<<k, Len(data)>>)]
                    ELSE st
         IN  IF \A i \in 1 .. Len(st1.shares) : st1.shares[i][1] # n
             THEN LET st2 == [st1 EXCEPT !.shares = Append(@, <<n, data>>),
                                         !.counter = (@ + 1) % 256]
                  IN  IF st2.counter = k
                      THEN [st2 EXCEPT !.ret = "ok", !.k = k]
                      ELSE st2
             ELSE [st1 EXCEPT !.shares =
                       [i \in 1 .. Len(st1.shares) |->
                           IF st1.shares[i][1] = n THEN <<n, data>>
                           ELSE st1.shares[i]]]

\* Accumulate comparing K alone with the first line, not the data length
AccumulateKOnly(st, k, n, data) ==
    IF st.opt_k_l # None /\ st.opt_k_l[1][1] # k
    THEN Return(st, ErrIncompatible)
    ELSE LET st1 == IF st.opt_k_l = None
                    THEN [st EXCEPT !.opt_k_l = Some(<<k, Len(data)>>)]
                    ELSE st
         IN  IF \A i \in 1 .. Len(st1.shares) : st1.shares[i][1] # n
             THEN LET st2 == [st1 EXCEPT !.shares = Append(@, <<n, data>>),
                                         !.counter = (@ + 1) % 256]
                  IN  IF st2.counter = k
                      THEN [st2 EXCEPT !.ret = "ok", !.k = k]
                      ELSE st2
             ELSE st1

\* Accumulate with the counter raised for every line, duplicates too
AccumulateCountsAll(st, k, n, data) ==
    IF st.opt_k_l # None
       /\ (st.opt_k_l[1][1] # k \/ st.opt_k_l[1][2] # Len(data))
    THEN Return(st, ErrIncompatible)
    ELSE LET st1 == IF st.opt_k_l = None
                    THEN [st EXCEPT !.opt_k_l = Some(<<k, Len(data)>>)]
                    ELSE st
             st2 == IF \A i \in 1 .. Len(st1.shares) : st1.shares[i][1] # n
                    THEN [st1 EXCEPT !.shares = Append(@, <<n, data>>),
                                     !.counter = (@ + 1) % 256]
                    ELSE [st1 EXCEPT !.counter = (@ + 1) % 256]
         IN  IF st2.counter = k
             THEN [st2 EXCEPT !.ret = "ok", !.k = k]
             ELSE st2

\* Accumulate without the check for an x already seen
AccumulateNoDedup(st, k, n, data) ==
    IF st.opt_k_l # None
       /\ (st.opt_k_l[1][1] # k \/ st.opt_k_l[1][2] # Len(data))
    THEN Return(st, ErrIncompatible)
    ELSE LET st1 == IF st.opt_k_l = None
                    THEN [st EXCEPT !.opt_k_l = Some(<<k, Len(data)>>)]
                    ELSE st
             st2 == [st1 EXCEPT !.shares = Append(@, <<n, data>>),
                                !.counter = (@ + 1) % 256]
         IN  IF st2.counter = k
             THEN [st2 EXCEPT !.ret = "ok", !.k = k]
             ELSE st2

\* the tail of the loop body of read_shares: consistency with the first
\* line, then the duplicate check, the push and the early return
Accumulate(st, k, n, data) ==
    IF st.opt_k_l # None
       /\ (st.opt_k_l[1][1] # k \/ st.opt_k_l[1][2] # Len(data))
    THEN Return(st, ErrIncompatible)
    ELSE LET st1 == IF st.opt_k_l = None
                    THEN [st EXCEPT !.opt_k_l = Some(<<k, Len(data)>>)]
                    ELSE st
         IN  IF \A i \in 1 .. Len(st1.shares) : st1.shares[i][1] # n
             THEN LET st2 == [st1 EXCEPT !.shares = Append(@, <<n, data>>),
                                         !.counter = (@ + 1) % 256]
                  IN  IF st2.counter = k
                      THEN [st2 EXCEPT !.ret = "ok", !.k = k]
                      ELSE st2
             ELSE st1

\* the checksum block of read_shares: the error it returns, "" for none
ChecksumError(k, n, data, check) ==
    IF Len(check) # 4 THEN ErrCheckLen
    ELSE LET crc_bytes == FromBase64(check)
         IN  IF ~crc_bytes.ok THEN ErrCheckB64
             ELSE IF crc_bytes.bytes # crc24_as_bytes(k, n, data)
                  THEN ErrChecksum
                  ELSE ""

\* ProcessLine that passes over a line that is empty once trimmed
ProcessLineSkipsBlank(st, line) ==
    LET parts == Split(Trim(line), "-")
    IN  IF Trim(line) = <<>> THEN st
        ELSE IF Len(parts) < 3 \/ Len(parts) > 4 THEN Return(st, ErrParts)
        ELSE
        LET pk == ParseU8(parts[1])
            pn == ParseU8(parts[2])
        IN  IF ~pk.ok \/ ~pn.ok THEN Return(st, ErrInt)
            ELSE IF pk.val < 1 \/ pn.val < 1 THEN Return(st, ErrIllegalKN)
            ELSE
            LET data == FromBase64(parts[3])
            IN  IF ~data.ok THEN Return(st, ErrDataB64)
                ELSE
                LET cerr == IF Len(parts) = 4
                            THEN ChecksumError(pk.val, pn.val, data.bytes,
                                               parts[4])
                            ELSE ""
                IN  IF cerr # "" THEN Return(st, cerr)
                    ELSE Accumulate(st, pk.val, pn.val, data.bytes)

\* one iteration of the loop of read_shares on `line`
ProcessLine(st, line) ==
    LET parts == Split(Trim(line), "-")
    IN  IF Len(parts) < 3 \/ Len(parts) > 4 THEN Return(st, ErrParts)
        ELSE
        LET pk == ParseU8(parts[1])
            pn == ParseU8(parts[2])
        IN  IF ~pk.ok \/ ~pn.ok THEN Return(st, ErrInt)
            ELSE IF pk.val < 1 \/ pn.val < 1 THEN Return(st, ErrIllegalKN)
            ELSE
            LET data == FromBase64(parts[3])
            IN  IF ~data.ok THEN Return(st, ErrDataB64)
                ELSE
                LET cerr == IF Len(parts) = 4
                            THEN ChecksumError(pk.val, pn.val, data.bytes,
                                               parts[4])
                            ELSE ""
                IN  IF cerr # "" THEN Return(st, cerr)
                    ELSE Accumulate(st, pk.val, pn.val, data.bytes)

RECURSIVE ReadSharesFrom(_, _, _)
ReadSharesFrom(lines, i, st) ==
    IF i > Len(lines) THEN [st |-> Return(st, ErrNotEnough), pos |-> i - 1]
    ELSE LET r == ProcessLine(st, lines[i])
         IN  IF r.ret = "continue" THEN ReadSharesFrom(lines, i + 1, r)
             ELSE [st |-> r, pos |-> i]

\* read_shares on a whole input: its final locals, and the lines it consumed
read_shares(lines) == ReadSharesFrom(lines, 1, ReadInit)

\* ------------------------------------------------------------ command line

\* parse_k_n: "K,N", both trimmed, both u8
parse_k_n(s) ==
    LET parts == Split(s, ",")
    IN  IF Len(parts) < 2 THEN [ok |-> FALSE, k |-> 0, n |-> 0]
        ELSE LET k == ParseU8(Trim(parts[1]))
                 n == ParseU8(Trim(parts[2]))
             IN  IF k.ok /\ n.ok THEN [ok |-> TRUE, k |-> k.val, n |-> n.val]
                 ELSE [ok |-> FALSE, k |-> 0, n |-> 0]

\* what getopts hands to main: whether the options parsed, the number of
\* arguments (the program name included), the flags, and the value of -e
Matches(ok, len, h, e, d, e_str) ==
    [ok |-> ok, len |-> len, h |-> h, e |-> e, d |-> d, e_str |-> e_str]

ActionErr(descr) == [tag |-> "Err", k |-> 0, n |-> 0, descr |-> descr]
ActionDecode == [tag |-> "Decode", k |-> 0, n |-> 0, descr |-> ""]
ActionEncode(k, n) == [tag |-> "Encode", k |-> k, n |-> n, descr |-> ""]

\* main's choice of the action from the parsed options
ChooseAction(m) ==
    IF ~m.e /\ ~m.d THEN ActionErr(ErrNothing)
    ELSE IF m.e /\ m.d THEN ActionErr(ErrBoth)
    ELSE IF m.d THEN ActionDecode
    ELSE IF m.e_str = None THEN ActionErr(ErrNoParam)
    ELSE LET kn == parse_k_n(m.e_str[1])
         IN  IF ~kn.ok THEN ActionErr(ErrParseKN)
             ELSE IF 0 < kn.k /\ kn.k <= kn.n THEN ActionEncode(kn.k, kn.n)
             ELSE ActionErr(ErrInvalidKN)

\* ------------------------------------------------------------------ state

VARIABLES
    args,       \* the command line as getopts parsed it
    stdin,      \* standard input: the bytes of an encode run; the lines of a
                \* decode run, which arrive on the stream as they are read
    pc,         \* where the process is
    action,     \* main's `action`
    enc,        \* the locals of perform_encode and secret_share
    dec,        \* the locals of read_shares and perform_decode
    result,     \* main's `result`, or the panic that ended the process
    stdout,     \* lines (encode, help) or bytes (decode) written so far
    stderr,     \* diagnostics written so far
    exit_code,  \* None while the process runs
    prior       \* the encode run whose output this decode run reads, if any

vars == <<args, stdin, pc, action, enc, dec, result, stdout, stderr,
          exit_code, prior>>

EncInit == [secret |-> <<>>, shares |-> <<>>, c |-> 0, coefs |-> <<>>,
            index |-> 0]
DecInit == [rs |-> ReadInit, pos |-> 0, secret |-> <<>>, byteindex |-> 0]

\* the secret length limit of perform_encode
limit == 65536

\* ------------------------------------------------------------------ inputs

\* the bytes a secret is made of, and the bytes the random source yields
SecretBytes == {0, 104}
RandBytes == {0, 83, 255}
\* the one-byte secrets of the secrecy specification
SecrecySecrets == {104, 255}

SeqsUpTo(S, n) == UNION {[1 .. m -> S] : m \in 0 .. n}

T_2_3 == <<"2", ",", "3">>
T_1_1 == <<"1", ",", "1">>
T_3_3 == <<"3", ",", " ", "3">>
T_0_1 == <<"0", ",", "1">>
T_3_2 == <<"3", ",", "2">>
T_2 == <<"2">>
T_x_1 == <<"x", ",", "1">>
T_256 == <<"2", "5", "6", ",", "2", "5", "6">>

GoodEParams == {T_1_1, T_2_3, T_3_3}
BadEParams == {T_0_1, T_3_2, T_2, T_x_1, T_256}

ArgsDecode == Matches(TRUE, 2, FALSE, FALSE, TRUE, None)
ArgsEncode(p) == Matches(TRUE, 3, FALSE, TRUE, FALSE, Some(p))

OtherArgs ==
    {Matches(FALSE, 2, FALSE, FALSE, FALSE, None),    \* an unknown option
     Matches(TRUE, 1, FALSE, FALSE, FALSE, None),     \* no argument
     Matches(TRUE, 2, TRUE, FALSE, FALSE, None),      \* -h
     Matches(TRUE, 3, TRUE, FALSE, TRUE, None),       \* -h -d
     Matches(TRUE, 2, FALSE, FALSE, FALSE, None),     \* a free argument
     Matches(TRUE, 4, FALSE, TRUE, TRUE, Some(T_2_3))}  \* -e 2,3 -d
    \cup {ArgsEncode(p) : p \in BadEParams}

\* share lines a decode run may be given
Share1 == <<104>>
Share2 == <<17>>
Share3 == <<200>>
T_AAAA == <<"A", "A", "A", "A">>

LineX1 == EmitLine(2, 0, Share1, TRUE)
LineX2 == EmitLine(2, 1, Share2, TRUE)
LineX3 == EmitLine(2, 2, Share3, FALSE)
LineX1Other == EmitLine(2, 0, <<77>>, FALSE)
LineK3 == EmitLine(3, 1, Share2, FALSE)
LineK3X1 == EmitLine(3, 0, Share1, TRUE)
LineLong == EmitLine(2, 1, <<17, 18>>, FALSE)
LineLongX1 == EmitLine(2, 0, <<>>, TRUE)
LineBadCrc == EmitLine(2, 1, Share2, FALSE) \o <<"-">> \o T_AAAA
LineK3BadCrc == EmitLine(3, 1, Share2, FALSE) \o <<"-">> \o T_AAAA
LineX1BadCrc == EmitLine(2, 0, Share1, FALSE) \o <<"-">> \o T_AAAA
LineCrcShort == EmitLine(2, 1, Share2, FALSE) \o <<"-", "A", "A", "A">>
LineCrcChar == EmitLine(2, 1, Share2, FALSE) \o <<"-", "A", "A", "*", "A">>
LineCrcPad == EmitLine(2, 1, Share2, FALSE) \o <<"-", "A", "A", "=", "=">>
LineEmpty == <<>>
LineBlank == <<" ", "\t">>
LineTwoParts == <<"2", "-", "1">>
LineFiveParts == LineX1 \o <<"-", "A">>
LineXZero == Join3(<<"2">>, <<"0">>, ToBase64(Share1))
LineKZero == Join3(<<"0">>, <<"1">>, ToBase64(Share1))
LineKText == Join3(<<"x">>, <<"1">>, ToBase64(Share1))
LineX256 == Join3(<<"2">>, <<"2", "5", "6">>, ToBase64(Share1))
LineDataShort == Join3(<<"2">>, <<"2">>, <<"a">>)
LineDataChar == Join3(<<"2">>, <<"2">>, <<"a", "*">>)
LineK1 == EmitLine(1, 0, Share1, TRUE)
LineX2Padded == <<" ">> \o LineX2 \o <<" ", "\r">>

GoodLines == {LineX1, LineX2, LineX3, LineX1Other, LineK1, LineX2Padded}
BadLines ==
    {LineK3, LineK3X1, LineLong, LineLongX1, LineBadCrc, LineK3BadCrc,
     LineX1BadCrc, LineCrcShort, LineCrcChar, LineCrcPad, LineEmpty,
     LineBlank, LineTwoParts, LineFiveParts, LineXZero, LineKZero,
     LineKText, LineX256, LineDataShort, LineDataChar}
InputLines == GoodLines \cup BadLines
\* lines that may lie on the stream behind the last line read_shares reads: a
\* new share, a duplicate, an incompatible, a checksum-failing, a malformed
\* and two blank ones
UnreadLines ==
    {LineX3, LineX1, LineK3, LineBadCrc, LineTwoParts, LineEmpty, LineBlank}

Range(f) == {f[i] : i \in DOMAIN f}

\* the lines the stream of a decode run can deliver next: any of InputLines
\* while fewer than MaxLines were delivered, or, when the run reads the
\* output of an earlier encode run, any of its lines not yet delivered
Available ==
    IF prior = None
    THEN IF Len(stdin) < MaxLines THEN InputLines ELSE {}
    ELSE Range(prior[1].lines) \ Range(stdin)

\* what may follow on the stream after the lines `read`
Unread(read) ==
    IF prior = None
    THEN SeqsUpTo(UnreadLines, Min(MaxUnread, MaxLines - Len(read)))
    ELSE {<<>>} \cup {<<l>> : l \in Range(prior[1].lines) \ Range(read)}

\* ------------------------------------------------------------------- Init

Fresh ==
    /\ pc = "main"
    /\ action = ActionErr("")
    /\ enc = EncInit
    /\ dec = DecInit
    /\ result = Running
    /\ stdout = <<>>
    /\ stderr = <<>>
    /\ exit_code = None

Init ==
    /\ \/ /\ args = ArgsDecode
          /\ stdin = <<>>
       \/ /\ args \in {ArgsEncode(p) : p \in GoodEParams}
          /\ stdin \in SeqsUpTo(SecretBytes, MaxLen)
       \/ /\ args \in OtherArgs
          /\ stdin = <<>>
    /\ prior = None
    /\ Fresh

\* ------------------------------------------------------------------- main

\* main up to the call of perform_encode or perform_decode
Main ==
    /\ pc = "main"
    /\ IF ~args.ok
       THEN /\ stderr' = Append(stderr, "Error: unrecognized option")
            /\ pc' = "exit"
            /\ exit_code' = Some(0)
            /\ UNCHANGED <<action, stdout, result>>
       ELSE IF args.len < 2 \/ args.h
       THEN /\ stdout' = Append(stdout, "Usage: secretshare [options]")
            /\ pc' = "exit"
            /\ exit_code' = Some(0)
            /\ UNCHANGED <<action, stderr, result>>
       ELSE LET a == ChooseAction(args)
            IN  /\ action' = a
                /\ pc' = CASE a.tag = "Encode" -> "perform_encode"
                           [] a.tag = "Decode" -> "read_shares"
                           [] OTHER -> "main_result"
                /\ result' = IF a.tag = "Err" THEN Err(a.descr) ELSE result
                /\ UNCHANGED <<stdout, stderr, exit_code>>
    /\ UNCHANGED <<args, stdin, enc, dec, prior>>

\* the end of main: the error, if any, goes to stderr; main returns, and
\* the exit status is never set (both set_exit_status calls are commented out)
MainResult ==
    /\ pc = "main_result"
    /\ stderr' = IF result.tag = "err" THEN Append(stderr, result.descr)
                 ELSE stderr
    /\ exit_code' = Some(0)
    /\ pc' = "exit"
    /\ UNCHANGED <<args, stdin, action, enc, dec, result, stdout, prior>>

\* a panic unwinds main: the message goes to stderr, the status is 101
Abort(descr) ==
    /\ result' = Panic(descr)
    /\ stderr' = Append(stderr, descr)
    /\ exit_code' = Some(101)
    /\ pc' = "exit"

\* ----------------------------------------------------------------- encode

\* perform_encode: the secret is read, up to `limit` bytes and no more
PerformEncodeRead ==
    /\ pc = "perform_encode"
    /\ LET tmp == SubSeq(stdin, 1, Min(limit, Len(stdin)))
       IN  IF Len(tmp) = limit /\ Len(stdin) > limit
           THEN /\ result' = Err(ErrTooLarge)
                /\ pc' = "main_result"
                /\ enc' = enc
           ELSE /\ enc' = [enc EXCEPT !.secret = tmp]
                /\ pc' = "secret_share"
                /\ result' = result
    /\ UNCHANGED <<args, stdin, action, dec, stdout, stderr, exit_code, prior>>

\* secret_share before its loop: n zeroed shares, and OsRng::new() succeeds
SecretShareBegin ==
    /\ pc = "secret_share"
    /\ enc.shares = <<>> /\ enc.c = 0
    /\ enc' = [enc EXCEPT !.shares = new_vec(action.n, new_vec(Len(enc.secret), 0)),
                          !.c = 1]
    /\ pc' = IF Len(enc.secret) = 0 THEN "emit" ELSE "secret_share"
    /\ UNCHANGED <<args, stdin, action, dec, result, stdout, stderr,
                   exit_code, prior>>

\* ... or OsRng::new() fails and the error is returned
OsRngFails ==
    /\ pc = "secret_share"
    /\ enc.c = 0
    /\ result' = Err(ErrRng)
    /\ pc' = "main_result"
    /\ UNCHANGED <<args, stdin, action, enc, dec, stdout, stderr,
                   exit_code, prior>>

\* the shares with column c set from col_out
SetColumn(shares, c, col_out) ==
    [x \in 1 .. Len(shares) |-> [shares[x] EXCEPT ![c] = col_out[x]]]

\* one iteration of the loop of secret_share: column c, fresh random bytes
SecretShareColumn ==
    /\ pc = "secret_share"
    /\ enc.c >= 1 /\ enc.c <= Len(enc.secret)
    /\ \E rnd \in [1 .. action.k - 1 -> RandBytes] :
          LET col_in == <<enc.secret[enc.c]>> \o rnd
              col_out == encode(col_in, action.n)
          IN  enc' = [enc EXCEPT !.shares = SetColumn(@, enc.c, col_out),
                                 !.coefs = Append(@, col_in),
                                 !.c = @ + 1]
    /\ pc' = IF enc.c = Len(enc.secret) THEN "emit" ELSE "secret_share"
    /\ UNCHANGED <<args, stdin, action, dec, result, stdout, stderr,
                   exit_code, prior>>

\* one iteration of the printing loop of perform_encode (main passes
\* with_checksums = true)
EmitShare ==
    /\ pc = "emit"
    /\ enc.index < Len(enc.shares)
    /\ stdout' = Append(stdout, EmitLine(action.k, enc.index,
                                         enc.shares[enc.index + 1], TRUE))
    /\ enc' = [enc EXCEPT !.index = @ + 1]
    /\ IF enc.index + 1 = Len(enc.shares)
       THEN result' = Ok /\ pc' = "main_result"
       ELSE result' = result /\ pc' = pc
    /\ UNCHANGED <<args, stdin, action, dec, stderr, exit_code, prior>>

\* ----------------------------------------------------------------- decode

\* one iteration of the loop of read_shares: the next line of the stream is
\* read and processed. When read_shares returns Ok, whatever else the stream
\* holds (rest) stays unread.
ReadSharesLine ==
    /\ pc = "read_shares"
    /\ dec.pos = Len(stdin)
    /\ \E line \in Available :
          LET r == ProcessLine(dec.rs, line)
          IN  /\ dec' = [dec EXCEPT !.rs = r, !.pos = @ + 1]
              /\ IF r.ret = "continue"
                 THEN /\ pc' = pc /\ result' = result
                      /\ stdin' = Append(stdin, line)
                 ELSE IF r.ret = "ok"
                 THEN /\ pc' = "perform_decode" /\ result' = result
                      /\ \E rest \in Unread(Append(stdin, line)) :
                            stdin' = Append(stdin, line) \o rest
                 ELSE /\ pc' = "main_result" /\ result' = Err(r.ret)
                      /\ stdin' = Append(stdin, line)
    /\ UNCHANGED <<args, action, enc, stdout, stderr, exit_code, prior>>

\* the input ends before K shares were collected
ReadSharesEof ==
    /\ pc = "read_shares"
    /\ dec.pos = Len(stdin)
    /\ dec' = [dec EXCEPT !.rs = Return(@, ErrNotEnough)]
    /\ result' = Err(ErrNotEnough)
    /\ pc' = "main_result"
    /\ UNCHANGED <<args, stdin, action, enc, stdout, stderr, exit_code, prior>>

\* col_in of perform_decode for one byte index
ColIn(shares, k, byteindex) ==
    [i \in 1 .. Min(k, Len(shares)) |-> <<shares[i][1], shares[i][2][byteindex]>>]

\* one iteration of the loop of perform_decode, or the write after it
PerformDecode ==
    /\ pc = "perform_decode"
    /\ LET shares == dec.rs.shares
           slen == Len(shares[1][2])
           bi == dec.byteindex + 1
       IN  IF shares = <<>>
           THEN Abort(PanicEmpty) /\ UNCHANGED <<dec, stdout>>
           ELSE IF dec.byteindex >= slen
           THEN /\ stdout' = stdout \o dec.secret
                /\ result' = Ok
                /\ pc' = "main_result"
                /\ UNCHANGED <<dec, stderr, exit_code>>
           ELSE IF \E i \in 1 .. Min(dec.rs.k, Len(shares)) :
                       bi > Len(shares[i][2])
           THEN Abort(PanicIndex) /\ UNCHANGED <<dec, stdout>>
           ELSE IF DuplicateShares(ColIn(shares, dec.rs.k, bi))
           THEN Abort(PanicDuplicate) /\ UNCHANGED <<dec, stdout>>
           ELSE /\ dec' = [dec EXCEPT
                     !.secret = Append(@, lagrange_interpolate(
                                              ColIn(shares, dec.rs.k, bi), 0)),
                     !.byteindex = bi]
                /\ UNCHANGED <<pc, result, stdout, stderr, exit_code>>
    /\ UNCHANGED <<args, stdin, action, enc, prior>>

\* ------------------------------------------------------------- environment

\* the lines a successful encode run printed are handed, in any order and
\* any number, to a decode run
Pipe ==
    /\ pc = "exit"
    /\ action.tag = "Encode"
    /\ result = Ok
    /\ prior = None
    /\ prior' = Some([secret |-> enc.secret, k |-> action.k, n |-> action.n,
                      lines |-> stdout])
    /\ args' = ArgsDecode
    /\ stdin' = <<>>
    /\ pc' = "main"
    /\ action' = ActionErr("")
    /\ enc' = EncInit
    /\ dec' = DecInit
    /\ result' = Running
    /\ stdout' = <<>>
    /\ stderr' = <<>>
    /\ exit_code' = None

\* ------------------------------------------------------------------- Next

Next ==
    \/ Main
    \/ PerformEncodeRead
    \/ SecretShareBegin
    \/ OsRngFails
    \/ SecretShareColumn
    \/ EmitShare
    \/ ReadSharesLine
    \/ ReadSharesEof
    \/ PerformDecode
    \/ MainResult
    \/ Pipe

Spec == Init /\ [][Next]_vars

\* Encode runs alone, on secrets of one byte: the specification of the
\* secrecy property, which is a property of each byte column by itself.
InitSecrecy ==
    /\ args \in {ArgsEncode(p) : p \in GoodEParams}
    /\ stdin \in [1 .. 1 -> SecrecySecrets]
    /\ prior = None
    /\ Fresh

NextSecrecy ==
    \/ Main
    \/ PerformEncodeRead
    \/ SecretShareBegin
    \/ OsRngFails
    \/ SecretShareColumn
    \/ EmitShare
    \/ MainResult

SpecSecrecy == InitSecrecy /\ [][NextSecrecy]_vars

\* ------------------------------------------------------------------ claims

DecodeRun == args = ArgsDecode
PipedRun == DecodeRun /\ prior # None

\* C1: round trip. A decode run that is handed K of the N lines an encode
\* run printed for a secret s (any K of them, in any order) ends with
\* success and has written exactly s.
RoundTrip ==
    (PipedRun /\ pc = "exit" /\ dec.pos = prior[1].k)
        => (result = Ok /\ stdout = prior[1].secret)

RoundTripWitness ==
    /\ PipedRun /\ pc = "exit"
    /\ prior[1].k = 2 /\ prior[1].n = 3
    /\ prior[1].secret = <<104>>
    /\ prior[1].lines[1] # prior[1].lines[3]
    /\ ToBase64(<<104>>) # Split(prior[1].lines[3], "-")[3]
    /\ stdin = <<prior[1].lines[3], prior[1].lines[1]>>
    /\ dec.pos = 2
    /\ stdout = <<104>>

\* secret_share has just returned its shares to perform_encode
SharesReturned == pc = "emit" /\ enc.index = 0

SampleBytes == {0, 255}
\* the candidate secret bytes tried for threshold k: all of them up to k = 2
CandidateBytes(k) == IF k <= 2 THEN Byte ELSE SampleBytes

\* the assignments of col_in[1..k-1] under which the shares at the points S
\* of column c are the observed ones when the secret byte is v
ConsistentCoefs(v, k, S, c) ==
    {a \in [1 .. k - 1 -> Byte] :
        \A x \in S : ShareAt(<<v>> \o a, x) = enc.shares[x][c]}

\* C2: secrecy below the threshold. For every byte position, every K-1 of
\* the N shares and every candidate secret byte v, exactly one assignment of
\* the random coefficients makes the observed share bytes consistent with v.
Secrecy ==
    SharesReturned =>
        \A c \in 1 .. Len(enc.secret) :
            \A S \in SUBSET (1 .. action.n) :
                Cardinality(S) = action.k - 1 =>
                    \A v \in CandidateBytes(action.k) :
                        Cardinality(ConsistentCoefs(v, action.k, S, c)) = 1

SecrecyWitness ==
    /\ SharesReturned
    /\ action.k = 3 /\ action.n = 3
    /\ enc.secret = <<104>>
    /\ enc.coefs = << <<104, 83, 255>> >>
    /\ ConsistentCoefs(0, 3, {1, 3}, 1) # {}
    /\ ConsistentCoefs(0, 3, {1, 3}, 1) # {<<83, 255>>}

\* ------------------------------------------------- the language of the claims

LineParts(line) == Split(Trim(line), "-")
\* empty, or nothing but whitespace
IsBlank(line) == \A i \in 1 .. Len(line) : IsWhitespace(line[i])
\* the fields of a line of three or four parts
LineK(line) == ParseU8(LineParts(line)[1])
LineX(line) == ParseU8(LineParts(line)[2])
LineData(line) == FromBase64(LineParts(line)[3])
\* the fourth part is four characters that decode to the CRC-24 of (K, x, data)
ChecksumMatches(line) ==
    /\ Len(LineParts(line)[4]) = 4
    /\ FromBase64(LineParts(line)[4]).ok
    /\ FromBase64(LineParts(line)[4]).bytes
           = crc24_as_bytes(LineK(line).val, LineX(line).val, LineData(line).bytes)
\* a share line by its syntax: 3 or 4 parts, K and x in 1..255, base64 data
IsShareLine(line) ==
    /\ Len(LineParts(line)) \in {3, 4}
    /\ LineK(line).ok /\ LineK(line).val >= 1
    /\ LineX(line).ok /\ LineX(line).val >= 1
    /\ LineData(line).ok
\* a share line that passes every check made on a line by itself
IsValidLine(line) ==
    /\ IsShareLine(line)
    /\ Len(LineParts(line)) = 4 => ChecksumMatches(line)
\* the line agrees with (K_ref, L_ref)
AgreesWith(line, k_l) ==
    LineK(line).val = k_l[1] /\ Len(LineData(line).bytes) = k_l[2]

\* the x values of the accepted shares
SeenX(shares) == {shares[i][1] : i \in 1 .. Len(shares)}

\* a step of the loop of read_shares, and the line it processes
LineStep == pc = "read_shares" /\ dec'.pos = dec.pos + 1
TheLine == stdin'[dec'.pos]
Accepted == dec'.rs.ret \in {"continue", "ok"}

\* the lines read_shares consumed so far
Consumed == SubSeq(stdin, 1, dec.pos)
ReadOk == DecodeRun /\ dec.rs.ret = "ok"

\* C3: early stop. read_shares goes on reading only while fewer than K
\* distinct-x lines are accepted; it returns success at the K-th such line,
\* which is the last line it consumes; the lines after it are not read, and
\* whatever they hold the run ends with success, as it does without them.
EarlyStop ==
    /\ (DecodeRun /\ pc = "read_shares" /\ dec.rs.opt_k_l # None)
           => Len(dec.rs.shares) < dec.rs.opt_k_l[1][1]
    /\ ReadOk =>
           /\ dec.pos >= 1 /\ dec.pos <= Len(stdin)
           /\ Len(dec.rs.shares) = dec.rs.opt_k_l[1][1]
           /\ IsValidLine(stdin[dec.pos])
           /\ LineX(stdin[dec.pos]).val = dec.rs.shares[Len(dec.rs.shares)][1]
           /\ read_shares(stdin) = [st |-> dec.rs, pos |-> dec.pos]
           /\ read_shares(Consumed) = [st |-> dec.rs, pos |-> dec.pos]
           /\ result.tag \in {"running", "ok"}
           /\ pc = "exit" => result = Ok /\ Len(stdout) = dec.rs.opt_k_l[1][2]

EarlyStopWitness ==
    /\ ReadOk /\ pc = "exit" /\ prior = None
    /\ dec.rs.k = 2 /\ dec.pos = 2
    /\ Len(stdin) = 3
    /\ stdin[3] = LineBadCrc
    /\ result = Ok

\* the line of the step is a valid share line whose x was already accepted
DuplicateStep ==
    /\ LineStep
    /\ IsValidLine(TheLine)
    /\ LineX(TheLine).val \in SeenX(dec.rs.shares)

\* the step leaves the locals of read_shares as they were and reads on
Ignored == dec'.rs = dec.rs /\ pc' = "read_shares" /\ result' = result

InsertAfter(lines, j, line) ==
    SubSeq(lines, 1, j) \o <<line>> \o SubSeq(lines, j + 1, Len(lines))

Outcome(r) == [ret |-> r.st.ret, k |-> r.st.k, shares |-> r.st.shares]

\* feeding any line of the input a second time, at once or later, gives the
\* outcome of feeding it once
FedTwice ==
    (DecodeRun /\ pc = "exit") =>
        \A i \in 1 .. Len(stdin) : \A j \in i .. Len(stdin) :
            Outcome(read_shares(InsertAfter(stdin, j, stdin[i])))
                = Outcome(read_shares(stdin))

MismatchStep ==
    /\ LineStep
    /\ dec.rs.opt_k_l # None
    /\ IsShareLine(TheLine)
    /\ ~AgreesWith(TheLine, dec.rs.opt_k_l[1])

\* C5 as stated: any later line whose K or data length differs from those of
\* the first accepted line fails the decode with 'Incompatible shares'.
MismatchAlwaysIncompatible ==
    [][MismatchStep => (result' = Err(ErrIncompatible) /\ stdout' = <<>>)]_vars

ChecksumErrors == {ErrCheckLen, ErrCheckB64, ErrChecksum}

\* C5 (amended): a later line that passes the checks made on a line by
\* itself and whose K or data length differs from (K_ref, L_ref) fails the
\* decode with 'Incompatible shares'; one that fails its checksum check fails
\* the decode with the checksum error instead. Either way read_shares
\* returns the error and a decode run that fails writes no secret bytes.
MismatchFails ==
    /\ [][MismatchStep =>
              /\ pc' = "main_result"
              /\ stdout' = <<>>
              /\ IF IsValidLine(TheLine)
                 THEN result' = Err(ErrIncompatible)
                 ELSE result'.tag = "err" /\ result'.descr \in ChecksumErrors]_vars
    /\ []((DecodeRun /\ result.tag = "err") => stdout = <<>>)

MismatchFailsWitness ==
    /\ DecodeRun /\ pc = "exit" /\ prior = None
    /\ stdin = <<LineX1, LineLong>>
    /\ result = Err(ErrIncompatible)
    /\ stdout = <<>>

\* the number of distinct x among share lines
DistinctX(lines) == Cardinality({LineX(lines[i]).val : i \in 1 .. Len(lines)})

\* every line passes the checks made on a line by itself and agrees with the
\* first line on K and on the data length
AllGood(lines) ==
    \A i \in 1 .. Len(lines) :
        /\ IsValidLine(lines[i])
        /\ AgreesWith(lines[i], <<LineK(lines[1]).val,
                                  Len(LineData(lines[1]).bytes)>>)

\* the input ended with fewer than K lines of distinct x accepted
EndedShort ==
    /\ DecodeRun /\ pc = "exit"
    /\ AllGood(stdin)
    /\ stdin = <<>> \/ DistinctX(stdin) < LineK(stdin[1]).val

\* C6: not enough shares. When the input ends after fewer than K lines with
\* distinct x were accepted (duplicates not counted, the empty input
\* included), the decode run fails with 'Not enough shares' and writes
\* nothing; a decode run never reconstructs from fewer than K shares.
NotEnoughShares ==
    /\ EndedShort => (result = Err(ErrNotEnough) /\ stdout = <<>>)
    /\ (DecodeRun /\ (pc = "perform_decode" \/ result = Ok \/ stdout # <<>>))
           => /\ AllGood(Consumed)
              /\ Consumed # <<>>
              /\ DistinctX(Consumed) = LineK(stdin[1]).val
              /\ Len(dec.rs.shares) = LineK(stdin[1]).val

NotEnoughSharesWitness ==
    /\ EndedShort /\ prior = None
    /\ stdin = <<LineX1, LineX1Other, LineX1>>
    /\ Len(dec.rs.shares) = 1
    /\ result = Err(ErrNotEnough)

\* the line with part j replaced
WithPart(line, j, part) ==
    LET p == [LineParts(line) EXCEPT ![j] = part]
    IN  Join3(p[1], p[2], p[3]) \o <<"-">> \o p[4]

AlteredDigits == {<<"1">>, <<"2">>, <<"3">>, <<"7">>}
AlteredChars == {"A", "B", "Q", "/"}
\* the part with one character replaced, or cut by one character
AlteredPart(part) ==
    {[part EXCEPT ![i] = ch] : i \in 1 .. Len(part), ch \in AlteredChars}
        \cup {SubSeq(part, 1, Len(part) - 1)}

\* an emitted line with its K, its x, its data or its checksum changed
Altered(line) ==
    ({WithPart(line, 1, d) : d \in AlteredDigits}
         \cup {WithPart(line, 2, d) : d \in AlteredDigits}
         \cup {WithPart(line, 3, d) : d \in AlteredPart(LineParts(line)[3])}
         \cup {WithPart(line, 4, d) : d \in AlteredPart(LineParts(line)[4])})
        \ {line}

AcceptsAlone(line) == ProcessLine(ReadInit, line).ret \in {"continue", "ok"}

\* line i of the input was consumed and passed
Passed(i) ==
    i < dec.pos \/ (i = dec.pos /\ dec.rs.ret \in {"continue", "ok", ErrNotEnough})

\* C7: checksum round trip. Every line an encode run prints carries the
\* checksum of its own K, x and data and is accepted by read_shares; a line
\* with a fourth segment passes read_shares only if that segment is four
\* characters that decode to the CRC-24 of the line's (K, x, data); an
\* emitted line whose K, x, data or checksum is changed so that this no
\* longer holds is rejected.
ChecksumRoundTrip ==
    /\ action.tag = "Encode" =>
           \A i \in 1 .. Len(stdout) :
               /\ Len(LineParts(stdout[i])) = 4
               /\ ChecksumMatches(stdout[i])
               /\ AcceptsAlone(stdout[i])
               /\ pc = "exit" =>
                      \A m \in Altered(stdout[i]) :
                          ~(IsShareLine(m) /\ ChecksumMatches(m))
                              => ~AcceptsAlone(m)
    /\ DecodeRun =>
           \A i \in 1 .. dec.pos :
               (Passed(i) /\ Len(LineParts(stdin[i])) = 4)
                   => ChecksumMatches(stdin[i])

ChecksumRoundTripWitness ==
    /\ action.tag = "Encode" /\ pc = "exit"
    /\ action.k = 2 /\ Len(stdout) = 3
    /\ AcceptsAlone(stdout[2])
    /\ ProcessLine(ReadInit, WithPart(stdout[2], 2, <<"3">>)).ret = ErrChecksum
    /\ \E m \in Altered(stdout[2]) :
           /\ LineParts(m)[3] # LineParts(stdout[2])[3]
           /\ ProcessLine(ReadInit, m).ret = ErrChecksum

\* the line of the step is empty or holds only whitespace
BlankStep == LineStep /\ IsBlank(TheLine)

\* C8 as stated: an empty or whitespace-only line is skipped: not counted,
\* no error, nothing fixed.
BlankSkipped == [][BlankStep => Ignored]_vars

\* C8 (amended): an empty or whitespace-only line is not skipped. When
\* read_shares reads one, before K shares are collected, the decode fails
\* with the share parse error for a line without 3 or 4 parts and writes
\* nothing; only after the K-th accepted line, where it stays unread, does
\* such a line leave the result as it is.
BlankRejected ==
    /\ [][BlankStep =>
              /\ result' = Err(ErrParts)
              /\ pc' = "main_result"
              /\ dec'.rs.shares = dec.rs.shares
              /\ stdout' = <<>>]_vars
    /\ []((DecodeRun /\ pc = "exit" /\ dec.pos >= 1 /\ IsBlank(stdin[dec.pos]))
              => (result = Err(ErrParts) /\ stdout = <<>>))
    /\ []((ReadOk /\ pc = "exit" /\ Len(stdin) > dec.pos
               /\ IsBlank(stdin[dec.pos + 1]))
              => (result = Ok /\ \A i \in 1 .. dec.pos : ~IsBlank(stdin[i])))

BlankRejectedWitness ==
    /\ DecodeRun /\ pc = "exit" /\ prior = None
    /\ stdin = <<LineX1, LineBlank>>
    /\ dec.pos = 2
    /\ dec.rs.shares = << <<1, Share1>> >>
    /\ result = Err(ErrParts)
    /\ stdout = <<>>

\* C9: exit status. The process exits with 0 when the flow succeeded and
\* with a non-zero status when main ended with an error.
ExitStatus ==
    pc = "exit" =>
        /\ result = Ok => exit_code = Some(0)
        /\ result.tag = "err" => (exit_code # None /\ exit_code # Some(0))

\* no two of the shares have the same x
DistinctShares(shares) ==
    \A i, j \in 1 .. Len(shares) : i # j => shares[i][1] # shares[j][1]

\* C10: the precondition of the decoder. Whenever read_shares returns
\* success it returns exactly K shares, K >= 1 (the counter never passes K
\* nor 255), with pairwise distinct x in 1..255 and data of the one length
\* L_ref; so perform_decode and lagrange_interpolate never panic: the shares
\* are not empty, every index is in range, no delta is zero.
DecoderPrecondition ==
    /\ DecodeRun =>
           /\ dec.rs.counter = Len(dec.rs.shares)
           /\ dec.rs.counter <= U8Max
           /\ dec.rs.opt_k_l # None => dec.rs.counter <= dec.rs.opt_k_l[1][1]
    /\ ReadOk =>
           /\ dec.rs.k >= 1
           /\ dec.rs.k = dec.rs.opt_k_l[1][1]
           /\ Len(dec.rs.shares) = dec.rs.k
           /\ DistinctShares(dec.rs.shares)
           /\ \A i \in 1 .. Len(dec.rs.shares) :
                  /\ dec.rs.shares[i][1] \in 1 .. U8Max
                  /\ Len(dec.rs.shares[i][2]) = dec.rs.opt_k_l[1][2]
           /\ \A b \in 1 .. dec.rs.opt_k_l[1][2] :
                  ~DuplicateShares(ColIn(dec.rs.shares, dec.rs.k, b))
    /\ result.tag # "panic"

DecoderPreconditionWitness ==
    /\ ReadOk /\ pc = "exit" /\ prior = None
    /\ stdin = <<LineX3, LineX3, LineX1>>
    /\ dec.rs.k = 2
    /\ dec.rs.shares = << <<3, Share3>>, <<1, Share1>> >>
    /\ Len(stdout) = 1
    /\ result = Ok

====
